---- MODULE Spec2Model ----
(***************************************************************************)
(* Model of ivsort.py: collation of pointed Hebrew words.  A word is a     *)
(* sequence of Unicode code points (integers).  The tables CONS, ORDER2,   *)
(* VOWELS, VOWDAGESH and RELEVANTCHARS are the module-level tables of the  *)
(* source; substitutions, trickyvav_replacer, sortkey and ivsort are       *)
(* translated statement by statement.  String indices are Python's         *)
(* (0-based, -1 for "not found").                                          *)
(***************************************************************************)
EXTENDS Integers, Sequences, FiniteSets

(* ------------------------- code points -------------------------------- *)
SOH      == 1       \* U+0001, the character the literal '\1' denotes
SPACE    == 32      \* U+0020
SHEVA    == 1456    \* U+05B0
HIRIQ    == 1460    \* U+05B4
HOLAM    == 1465    \* U+05B9
QUBUTS   == 1467    \* U+05BB
DAGESH   == 1468    \* U+05BC
MAQAF    == 1470    \* U+05BE
SHINDOT  == 1473    \* U+05C1
SINDOT   == 1474    \* U+05C2
ALEF     == 1488    \* U+05D0
VAV      == 1493    \* U+05D5
SHIN     == 1513    \* U+05E9
TAV      == 1514    \* U+05EA
SIN      == 64299   \* U+FB2B, Shin with Sin-dot (precomposed)
SHUREQ   == 64309   \* U+FB35, Vav with dagesh (precomposed)
HOLAMVAV == 64331   \* U+FB4B, Vav with Holam (precomposed)

(* ------------------------- bounds of the model ------------------------ *)
MaxVavLen == 5      \* longest input word over VavAlphabet
MaxSinLen == 5      \* longest input word over SinAlphabet
MaxLen    == 3      \* longest input word over FullAlphabet
MaxList   == 3      \* longest word list handed to ivsort

(* ------------------------- Python string primitives ------------------- *)
Min(a, b) == IF a < b THEN a ELSE b
Max(a, b) == IF a > b THEN a ELSE b

\* s[a:b] with Python's treatment of negative and out-of-range indices
Slice(s, a, b) ==
    LET n  == Len(s)
        lo == IF a < 0 THEN Max(a + n, 0) ELSE Min(a, n)
        hi == IF b < 0 THEN Max(b + n, 0) ELSE Min(b, n)
    IN  IF lo < hi THEN SubSeq(s, lo + 1, hi) ELSE <<>>

\* s[a:]
SliceFrom(s, a) == Slice(s, a, Len(s))

\* s.find(pat): 0-based index of the first occurrence of pat, -1 if none
Find(s, pat) ==
    LET hits == {p \in 0..(Len(s) - Len(pat)) :
                    SubSeq(s, p + 1, p + Len(pat)) = pat}
    IN  IF hits = {} THEN -1 ELSE CHOOSE p \in hits : \A q \in hits : p <= q

\* s.replace(old, new, 1): the first occurrence of old in s is replaced
ReplaceFirst(s, old, new) ==
    LET p == Find(s, old)
    IN  IF p = -1 THEN s
        ELSE SubSeq(s, 1, p) \o new \o SubSeq(s, p + Len(old) + 1, Len(s))

\* "x in S" for a string x and a set S of one-character strings
StrIn(x, S) == Len(x) = 1 /\ x[1] \in S

(* ------------------------- the ordering tables ------------------------ *)
\* the string enumerated at line 40
ConsString ==
    <<SPACE>> \o [j \in 1..25 |-> ALEF + j - 1] \o <<SIN, SHIN, TAV>>

CONS ==
    [c \in {ConsString[j] : j \in 1..Len(ConsString)} \cup {MAQAF} |->
        IF c = MAQAF THEN 0
        ELSE (CHOOSE j \in 1..Len(ConsString) : ConsString[j] = c) - 1]

\* fault: the dagesh enumerated among the vowels
VOWELORDER_withDagesh ==
    [j \in 1..11 |-> SHEVA + j - 1] \o <<HOLAMVAV, QUBUTS, SHUREQ, DAGESH>>

\* the string of line 42 after the carrier letter is removed
VOWELORDER ==
    [j \in 1..11 |-> SHEVA + j - 1] \o <<HOLAMVAV, QUBUTS, SHUREQ>>

ORDER2 ==
    [c \in DOMAIN CONS \cup {VOWELORDER[j] : j \in 1..Len(VOWELORDER)} |->
        IF c \in {VOWELORDER[j] : j \in 1..Len(VOWELORDER)}
        THEN 100 + (CHOOSE j \in 1..Len(VOWELORDER) : VOWELORDER[j] = c) - 1
        ELSE CONS[c]]

VOWELS == {VOWELORDER[j] : j \in 1..Len(VOWELORDER)}

VOWDAGESH == VOWELS \cup {DAGESH}

RELEVANTCHARS == (VOWDAGESH \cup DOMAIN CONS) \cup {SINDOT, SHINDOT}

TRICKYVAVS ==
    << <<(<<HOLAM, VAV>>), <<HOLAMVAV>> >>,
       <<(<<VAV, HOLAM>>), <<HOLAMVAV>> >>,
       <<(<<VAV, DAGESH>>), <<SHUREQ>> >> >>

(* ------------------------- unicodedata.normalize('NFD', .) ------------ *)
\* canonical decomposition of one code point (the precomposed Hebrew
\* presentation forms that the tables name; every other code point of the
\* input alphabets has no decomposition)
Decomposition(c) ==
    CASE c = SIN      -> <<SHIN, SINDOT>>
      [] c = SHUREQ   -> <<VAV, DAGESH>>
      [] c = HOLAMVAV -> <<VAV, HOLAM>>
      [] OTHER        -> <<c>>

\* canonical combining class: Hebrew points 10..21, Shin-dot 24, Sin-dot 25,
\* the accent Etnahta (U+0591) 220, every base character 0
CombiningClass(c) ==
    CASE c >= SHEVA /\ c <= HOLAM -> c - SHEVA + 10
      [] c = HOLAM + 1            -> 19
      [] c = QUBUTS               -> 20
      [] c = DAGESH               -> 21
      [] c = SHINDOT              -> 24
      [] c = SINDOT               -> 25
      [] c = 1425                 -> 220
      [] OTHER                    -> 0

RECURSIVE DecomposeAll(_)
DecomposeAll(s) ==
    IF s = <<>> THEN <<>> ELSE Decomposition(Head(s)) \o DecomposeAll(Tail(s))

\* canonical ordering: a mark moves left past marks of a higher class
RECURSIVE InsertMark(_, _)
InsertMark(acc, c) ==
    IF acc = <<>> \/ CombiningClass(c) = 0
       \/ CombiningClass(acc[Len(acc)]) <= CombiningClass(c)
    THEN Append(acc, c)
    ELSE Append(InsertMark(SubSeq(acc, 1, Len(acc) - 1), c), acc[Len(acc)])

RECURSIVE CanonicalOrder(_, _)
CanonicalOrder(acc, s) ==
    IF s = <<>> THEN acc ELSE CanonicalOrder(InsertMark(acc, Head(s)), Tail(s))

NFD(s) == CanonicalOrder(<<>>, DecomposeAll(s))

(* ------------------------- substitutions ------------------------------ *)
\* fault: the filter of line 75 left out
FilterRelevant_keepAll(s) == s

\* line 75: keep the relevant characters, in order
IsRelevant(c) == c \in RELEVANTCHARS

FilterRelevant(s) == SelectSeq(s, IsRelevant)

\* fault: the pattern without the group of intervening marks
MatchSinAt_adjacentOnly(s) ==
    IF Len(s) >= 2 /\ s[1] = SHIN /\ s[2] = SINDOT THEN 2 ELSE 0

\* MATCHSIN at the head of s: Shin, n in 0..2 characters of VOWDAGESH
\* (greedy), the Sin-dot.  The value is the length of the match, 0 for none.
MatchSinAt(s) ==
    LET ok(n) == /\ Len(s) >= n + 2
                 /\ s[1] = SHIN
                 /\ \A j \in 2..(n + 1) : s[j] \in VOWDAGESH
                 /\ s[n + 2] = SINDOT
    IN  IF ok(2) THEN 4 ELSE IF ok(1) THEN 3 ELSE IF ok(0) THEN 2 ELSE 0

\* the replacement string of line 76: in a non-raw literal '\1' is the
\* octal escape for U+0001, so the template is Sin followed by U+0001
SinReplacement == <<SIN, SOH>>

\* MATCHSIN.sub(template, s): leftmost non-overlapping matches
RECURSIVE MatchSinSub(_)
MatchSinSub(s) ==
    IF s = <<>> THEN <<>>
    ELSE LET m == MatchSinAt(s)
         IN  IF m > 0
             THEN SinReplacement \o MatchSinSub(SubSeq(s, m + 1, Len(s)))
             ELSE <<Head(s)>> \o MatchSinSub(Tail(s))

(* ------------------------- trickyvav_replacer ------------------------- *)
\* fault: the look-behind of line 90 left out
PrecededByVowel_never(word, i) == FALSE

\* fault: the scan restarts at the occurrence just inspected
NextStart_same(i) == i

\* the condition of line 90
FollowedByVowel(word, i) == StrIn(Slice(word, i + 2, i + 1), VOWDAGESH)
PrecededByVowel(word, i) == StrIn(Slice(word, i - 1, i), VOWELS)
Absorbs(word, i) == ~(FollowedByVowel(word, i) \/ PrecededByVowel(word, i))

\* line 91
Recompose(word, nfd, nfc) == ReplaceFirst(word, nfd, nfc)

\* line 92
NextStart(i) == i + 1

\* lines 87-88: the loop state on entry
VavEnter(word, nfd) ==
    [word |-> word, check |-> Find(word, nfd), i |-> Find(word, nfd)]

\* lines 90-94: one iteration of the loop body
VavIter(st, nfd, nfc) ==
    LET w     == IF Absorbs(st.word, st.i)
                 THEN Recompose(st.word, nfd, nfc) ELSE st.word
        start == NextStart(st.i)
        chk   == Find(SliceFrom(w, start), nfd)
    IN  [word |-> w, check |-> chk, i |-> chk + start]

RECURSIVE VavLoop(_, _, _)
VavLoop(st, nfd, nfc) ==
    IF st.check = -1 THEN st.word ELSE VavLoop(VavIter(st, nfd, nfc), nfd, nfc)

trickyvav_replacer(word, nfd, nfc) == VavLoop(VavEnter(word, nfd), nfd, nfc)

\* lines 77-78
RECURSIVE VavPasses(_, _)
VavPasses(word, k) ==
    IF k > Len(TRICKYVAVS) THEN word
    ELSE VavPasses(trickyvav_replacer(word, TRICKYVAVS[k][1], TRICKYVAVS[k][2]),
                   k + 1)

substitutions(word) == VavPasses(MatchSinSub(FilterRelevant(NFD(word))), 1)

(* ------------------------- sortkey ------------------------------------ *)
\* lines 60-66: one pass over the characters, appending ranks
RECURSIVE KeyLoop(_, _, _)
KeyLoop(word, key1, key2) ==
    IF word = <<>> THEN <<key1, key2>>
    ELSE LET char == Head(word)
         IN  KeyLoop(Tail(word),
                     IF char \in DOMAIN CONS
                     THEN Append(key1, CONS[char]) ELSE key1,
                     IF char \in DOMAIN ORDER2
                     THEN Append(key2, ORDER2[char]) ELSE key2)

KeyOf(word) == KeyLoop(word, <<>>, <<>>)

sortkey(word) == KeyOf(substitutions(word))

(* ------------------------- ivsort ------------------------------------- *)
\* Python's "<" on lists of integers
ListLess(x, y) ==
    \/ Len(x) < Len(y) /\ SubSeq(y, 1, Len(x)) = x
    \/ \E j \in 1..Min(Len(x), Len(y)) :
          /\ SubSeq(x, 1, j - 1) = SubSeq(y, 1, j - 1)
          /\ x[j] < y[j]

\* fault: the tuple compared vowels first
KeyLess_key2First(a, b) ==
    IF a[2] # b[2] THEN ListLess(a[2], b[2]) ELSE ListLess(a[1], b[1])

\* Python's "<" on the tuples (key1, key2)
KeyLess(a, b) ==
    IF a[1] # b[1] THEN ListLess(a[1], b[1]) ELSE ListLess(a[2], b[2])

\* sorted(., key=sortkey): a stable sort that compares keys with "<" only;
\* an element goes in front of the first element whose key is greater
RECURSIVE InsertByKey(_, _)
InsertByKey(acc, w) ==
    IF acc = <<>> THEN <<w>>
    ELSE IF KeyLess(sortkey(w), sortkey(acc[Len(acc)]))
         THEN Append(InsertByKey(SubSeq(acc, 1, Len(acc) - 1), w), acc[Len(acc)])
         ELSE Append(acc, w)

RECURSIVE SortedFrom(_, _)
SortedFrom(acc, ws) ==
    IF ws = <<>> THEN acc ELSE SortedFrom(InsertByKey(acc, Head(ws)), Tail(ws))

ivsort(wordlist) == SortedFrom(<<>>, wordlist)

(* ------------------------- the state machine -------------------------- *)
VARIABLES
    input,      \* the word handed to sortkey
    word,       \* the local variable word of substitutions / trickyvav_replacer
    pc,         \* the statement about to run
    k,          \* index into TRICKYVAVS of the pattern being resolved
    check,      \* the local variable check of trickyvav_replacer
    i,          \* the local variable i of trickyvav_replacer
    key,        \* the value returned by sortkey
    wordlist,   \* the argument of ivsort
    result      \* the value returned by ivsort

vars == <<input, word, pc, k, check, i, key, wordlist, result>>

\* input alphabets: Vav with its marks; Shin with its marks; and a mixed
\* alphabet with the precomposed forms, U+0001 and the accent U+0591
VavAlphabet  == {ALEF, VAV, HIRIQ, HOLAM, DAGESH}
SinAlphabet  == {SHIN, HIRIQ, DAGESH, SINDOT}
FullAlphabet == {ALEF, VAV, SHIN, HIRIQ, HOLAM, DAGESH, SINDOT, SHINDOT,
                 SIN, SHUREQ, HOLAMVAV, SOH, 1425}

WordsOver(A, n) == UNION {[1..m -> A] : m \in 0..n}

Words == WordsOver(VavAlphabet, MaxVavLen) \cup WordsOver(SinAlphabet, MaxSinLen)
           \cup WordsOver(FullAlphabet, MaxLen)

\* words handed to ivsort: different skeletons, equal skeletons with
\* different vowels, and different strings with equal keys
SortPool ==
    { <<ALEF>>, <<ALEF, TAV, SOH>>, <<ALEF, HIRIQ>>, <<ALEF, HIRIQ, VAV>>,
      <<ALEF, TAV>>, <<SHIN, SINDOT>>, <<SHIN, SHINDOT>> }

nfdOf == TRICKYVAVS[k][1]
nfcOf == TRICKYVAVS[k][2]

Init ==
    /\ input \in Words
    /\ word = input
    /\ pc = "normalize"
    /\ k = 1
    /\ check = -1
    /\ i = -1
    /\ key = << <<>>, <<>> >>
    /\ wordlist = <<>>
    /\ result = <<>>

\* line 74
Normalize ==
    /\ pc = "normalize"
    /\ word' = NFD(word)
    /\ pc' = "filter"
    /\ UNCHANGED <<input, k, check, i, key, wordlist, result>>

\* line 75
Filter ==
    /\ pc = "filter"
    /\ word' = FilterRelevant(word)
    /\ pc' = "matchsin"
    /\ UNCHANGED <<input, k, check, i, key, wordlist, result>>

\* line 76
MatchSin ==
    /\ pc = "matchsin"
    /\ word' = MatchSinSub(word)
    /\ pc' = "find"
    /\ UNCHANGED <<input, k, check, i, key, wordlist, result>>

\* lines 87-88, for the k-th pair of TRICKYVAVS
VavFind ==
    /\ pc = "find"
    /\ check' = VavEnter(word, nfdOf).check
    /\ i' = VavEnter(word, nfdOf).i
    /\ pc' = "loop"
    /\ UNCHANGED <<input, word, k, key, wordlist, result>>

\* lines 89-94: the loop test holds, the body runs once
VavBody ==
    /\ pc = "loop"
    /\ check # -1
    /\ LET st == VavIter([word |-> word, check |-> check, i |-> i], nfdOf, nfcOf)
       IN  /\ word' = st.word
           /\ check' = st.check
           /\ i' = st.i
    /\ UNCHANGED <<input, pc, k, key, wordlist, result>>

\* lines 89, 95 and 77-79: the loop test fails; the next pair, or the return
VavReturn ==
    /\ pc = "loop"
    /\ check = -1
    /\ IF k < Len(TRICKYVAVS)
       THEN k' = k + 1 /\ pc' = "find"
       ELSE k' = k /\ pc' = "keys"
    /\ UNCHANGED <<input, word, check, i, key, wordlist, result>>

\* lines 60-66
BuildKey ==
    /\ pc = "keys"
    /\ key' = KeyOf(word)
    /\ pc' = "done"
    /\ UNCHANGED <<input, word, k, check, i, wordlist, result>>

Next ==
    \/ Normalize
    \/ Filter
    \/ MatchSin
    \/ VavFind
    \/ VavBody
    \/ VavReturn
    \/ BuildKey

Spec == Init /\ [][Next]_vars

(* ------------------------- sorting a list ----------------------------- *)
SortInit ==
    /\ wordlist \in WordsOver(SortPool, MaxList)
    /\ result = <<>>
    /\ pc = "sort"
    /\ input = <<>>
    /\ word = <<>>
    /\ k = 1
    /\ check = -1
    /\ i = -1
    /\ key = << <<>>, <<>> >>

\* lines 98-100
Ivsort ==
    /\ pc = "sort"
    /\ result' = ivsort(wordlist)
    /\ pc' = "sorted"
    /\ UNCHANGED <<input, word, k, check, i, key, wordlist>>

SortNext == Ivsort

SortSpec == SortInit /\ [][SortNext]_vars

(* ------------------------- properties --------------------------------- *)
Positions(s) == 1..Len(s)
HasPair(s, pat) == Find(s, pat) # -1
CountPairs(s, pat) ==
    Cardinality({p \in 0..(Len(s) - Len(pat)) : SubSeq(s, p + 1, p + Len(pat)) = pat})

\* the word as substitutions sees it after lines 74-75
Filtered(w) == FilterRelevant(NFD(w))

\* the two characters at 0-based position p replaced by the unit nfc
RewriteAt(s, p, nfc) == SubSeq(s, 1, p) \o nfc \o SubSeq(s, p + 3, Len(s))

\* lexicographic "<=" on integer sequences, stated by the first difference
SeqLeq(x, y) ==
    \/ x = y
    \/ \E j \in 1..Len(y) :
          /\ j <= Len(x) + 1
          /\ \A m \in 1..(j - 1) : x[m] = y[m]
          /\ (j = Len(x) + 1 \/ x[j] < y[j])

PairLeq(a, b) == IF a[1] = b[1] THEN SeqLeq(a[2], b[2]) ELSE SeqLeq(a[1], b[1])

IndexPermutations(n) == {f \in [1..n -> 1..n] : \A a, b \in 1..n : f[a] = f[b] => a = b}

\* C1: ivsort returns a permutation of its input whose adjacent elements are
\* in non-decreasing order of (key1, key2) compared lexicographically; words
\* with different key1 are ordered by key1 alone; words with identical keys
\* keep their original relative order.
C1_StableSortByKey ==
    pc = "sorted" =>
        \E f \in IndexPermutations(Len(wordlist)) :
            /\ Len(result) = Len(wordlist)
            /\ \A j \in Positions(result) : result[j] = wordlist[f[j]]
            /\ \A j \in 1..(Len(result) - 1) :
                  PairLeq(sortkey(result[j]), sortkey(result[j + 1]))
            /\ \A a, b \in Positions(result) :
                  /\ a < b
                  /\ sortkey(result[a])[1] # sortkey(result[b])[1]
                  => SeqLeq(sortkey(result[a])[1], sortkey(result[b])[1])
            /\ \A a, b \in Positions(result) :
                  a < b /\ sortkey(result[a]) = sortkey(result[b]) => f[a] < f[b]

\* a sorted list that was reordered, holds two different strings with equal
\* keys, and holds a pair ordered by key1 against the order of key2
C1_Witness ==
    /\ pc = "sorted"
    /\ result # wordlist
    /\ \E a, b \in Positions(result) :
          a < b /\ result[a] # result[b] /\ sortkey(result[a]) = sortkey(result[b])
    /\ \E a, b \in Positions(result) :
          /\ a < b
          /\ sortkey(result[a])[1] # sortkey(result[b])[1]
          /\ ~SeqLeq(sortkey(result[a])[2], sortkey(result[b])[2])

\* C2 (as stated): normalization is idempotent for every word.
C2_Idempotent == pc = "done" => substitutions(word) = word

\* the decomposed, filtered input is in canonical order and has no Holam
\* directly before a Vav
C2_Settled(w) == NFD(Filtered(w)) = Filtered(w) /\ ~HasPair(Filtered(w), <<HOLAM, VAV>>)

\* C2 (amended): normalization is idempotent for every word whose
\* decomposed, filtered form is in canonical order and has no Holam directly
\* before a Vav, also when the result holds recomposed units.
C2_IdempotentWhenSettled ==
    pc = "done" /\ C2_Settled(input) => substitutions(word) = word

C2_Witness ==
    /\ pc = "done"
    /\ C2_Settled(input)
    /\ \E a, b, c \in Positions(word) :
          word[a] = HOLAMVAV /\ word[b] = SHUREQ /\ word[c] = SIN

\* position p of w holds a Sin-dot carried by a Shin at position q
ShinOf(w, p) ==
    {q \in 1..(p - 1) :
        w[q] = SHIN /\ \A j \in (q + 1)..(p - 1) : CombiningClass(w[j]) > 0}
SinDotted(w) == {p \in Positions(w) : w[p] = SINDOT /\ ShinOf(w, p) # {}}
ShinVersion(w, p) == [w EXCEPT ![p] = SHINDOT]

\* the relevant marks, other than Sin-dots, of the combining sequence of the
\* Shin that carries the Sin-dot at p
ClusterMarks(w, p) ==
    LET q == CHOOSE q \in ShinOf(w, p) : TRUE
    IN  {j \in (q + 1)..Len(w) :
            /\ \A m \in (q + 1)..j : CombiningClass(w[m]) > 0
            /\ w[j] \in RELEVANTCHARS
            /\ w[j] # SINDOT}

\* C3 (as stated): for every word, the version with the Sin-dot and the
\* version with the Shin-dot get different sort keys, and Sin and Shin have
\* distinct consecutive ranks.
C3_SinShinDiffer ==
    /\ CONS[SHIN] = CONS[SIN] + 1
    /\ pc = "done" =>
          \A p \in SinDotted(input) : key # sortkey(ShinVersion(input, p))

\* C3 (amended): the keys differ whenever the Shin carries at most two
\* vowel or dagesh marks besides the Sin-dot (and no Shin-dot); Sin and Shin
\* have distinct consecutive ranks.
C3_SinShinDifferUpToTwoMarks ==
    /\ CONS[SHIN] = CONS[SIN] + 1
    /\ pc = "done" =>
          \A p \in SinDotted(input) :
              /\ Cardinality(ClusterMarks(input, p)) <= 2
              /\ \A j \in ClusterMarks(input, p) : input[j] \in VOWDAGESH
              => key # sortkey(ShinVersion(input, p))

C3_Witness ==
    /\ pc = "done"
    /\ \E p \in SinDotted(input) :
          /\ Cardinality(ClusterMarks(input, p)) = 2
          /\ \A j \in ClusterMarks(input, p) : input[j] \in VOWDAGESH
          /\ key # sortkey(ShinVersion(input, p))

\* C4: a Holam next to a Vav is recomposed into Holam-Vav exactly when
\* neither exception applies: the character after the pair is a vowel or
\* dagesh, or the character before the pair is a vowel.
C4_HolamAbsorbedUnlessException ==
    [][VavBody /\ k \in {1, 2} =>
         LET after  == IF i + 3 <= Len(word) THEN <<word[i + 3]>> ELSE <<>>
             before == IF i >= 1 THEN <<word[i]>> ELSE <<>>
         IN  word' = IF StrIn(after, VOWDAGESH) \/ StrIn(before, VOWELS)
                     THEN word
                     ELSE RewriteAt(word, i, <<HOLAMVAV>>)]_vars

\* C5: every character of the string returned by substitutions is a
\* relevant character.
C5_OnlyRelevantChars ==
    pc \in {"keys", "done"} => \A j \in Positions(word) : word[j] \in RELEVANTCHARS

\* the Sin rewrite as described: Sin, then the matched marks
RECURSIVE ExpectedSinSub(_)
ExpectedSinSub(s) ==
    IF s = <<>> THEN <<>>
    ELSE LET m == MatchSinAt(s)
         IN  IF m > 0
             THEN <<SIN>> \o SubSeq(s, 2, m - 1)
                          \o ExpectedSinSub(SubSeq(s, m + 1, Len(s)))
             ELSE <<Head(s)>> \o ExpectedSinSub(Tail(s))

\* C7: a Shin followed by zero to two vowel/dagesh marks and the Sin-dot is
\* rewritten to Sin followed by the same marks in the same order.
C7_SinKeepsMarks ==
    pc = "find" /\ k = 1 => word = ExpectedSinSub(Filtered(input))

\* C6: no iteration of the scan loop makes the word longer, the next scan
\* starts beyond the current index, and every iteration that leaves the loop
\* running has moved the scan index forward to a position inside the word
\* (so the loop ends after at most Len(word) iterations).
C6_LoopAdvances ==
    [][VavBody =>
         /\ Len(word') <= Len(word)
         /\ NextStart(i) > i
         /\ (check' # -1 => i' > i /\ i' < Len(word'))]_vars

C6_Witness ==
    /\ pc = "loop"
    /\ k = 3
    /\ check # -1
    /\ i > 1
    /\ HasPair(word, <<SHUREQ>>)
    /\ ~HasPair(input, <<SHUREQ>>)

\* C8: the occurrence rewritten is the one at the scan position, and an
\* occurrence that failed its check is left alone.
C8_RewritesAtScanPosition ==
    [][VavBody =>
         word' = IF Absorbs(word, i) THEN RewriteAt(word, i, nfcOf) ELSE word]_vars

\* the word on entry to the third pass (Vav + dagesh)
BeforeShureq(w) ==
    trickyvav_replacer(
        trickyvav_replacer(MatchSinSub(Filtered(w)),
                           TRICKYVAVS[1][1], TRICKYVAVS[1][2]),
        TRICKYVAVS[2][1], TRICKYVAVS[2][2])

\* C9 (as stated): no Vav + dagesh pair remains in the output.
C9_ShureqUnconditional == pc = "done" => ~HasPair(word, <<VAV, DAGESH>>)

\* C9 (amended): the first Vav + dagesh pair becomes Shureq whenever the
\* character before it is not a vowel; the only Vav + dagesh pair of a word
\* stays decomposed when it directly follows a vowel.
C9_ShureqUnlessAfterVowel ==
    pc = "done" =>
        LET w == BeforeShureq(input)
            p == Find(w, <<VAV, DAGESH>>)
        IN  p # -1 =>
              /\ ~(p >= 1 /\ w[p] \in VOWELS) => word[p + 1] = SHUREQ
              /\ (p >= 1 /\ w[p] \in VOWELS) /\ CountPairs(w, <<VAV, DAGESH>>) = 1
                    => word = w

C9_Witness ==
    /\ pc = "done"
    /\ LET w == BeforeShureq(input)
           p == Find(w, <<VAV, DAGESH>>)
       IN  /\ p >= 1
           /\ w[p] = HOLAMVAV
           /\ CountPairs(w, <<VAV, DAGESH>>) = 1
           /\ word = w

\* C10 (as stated): the dagesh has a vowel-tier rank: every character of
\* the normalized word that is a consonant, a vowel or the dagesh appends
\* one rank to key2.
C10_DageshRanked ==
    pc = "done" =>
        Len(key[2]) =
            Cardinality({j \in Positions(word) : word[j] \in DOMAIN CONS \cup VOWDAGESH})

InTable(c) == c \in (DOMAIN CONS \cup VOWELS) \ {DAGESH}
InCons(c) == c \in DOMAIN CONS

\* C10 (amended): the dagesh is in neither table and appends nothing;
\* every other character of the normalized word that is in a table appends
\* exactly one rank to key2 in occurrence order (vowels 100 and above,
\* consonants below), and the consonants alone make key1.
C10_TableCharsRanked ==
    pc = "done" =>
        LET t == SelectSeq(word, InTable)
            c == SelectSeq(word, InCons)
        IN  /\ key[2] = [j \in 1..Len(t) |-> ORDER2[t[j]]]
            /\ key[1] = [j \in 1..Len(c) |-> CONS[c[j]]]
            /\ \A j \in 1..Len(t) : (t[j] \in VOWELS) <=> key[2][j] >= 100
            /\ \A j \in 1..Len(c) : key[1][j] < 100

C10_Witness ==
    /\ pc = "done"
    /\ HasPair(word, <<DAGESH>>)
    /\ HasPair(word, <<HIRIQ>>)
    /\ Len(key[1]) >= 1
    /\ Len(key[2]) = Len(word) - CountPairs(word, <<DAGESH>>)

====
